---- MODULE Spec2Model ----
(***************************************************************************)
(* Peak analysis engine of CaMKIIAnalyzer (src/analysis.py): the per       *)
(* reading peak arrays, property lists and manual match overrides, the     *)
(* handlers that edit them, the hybrid boundary resolver and the greedy    *)
(* peak pairing.                                                           *)
(*                                                                         *)
(* Numbers are fixed point.  A trace value v of the program is the integer *)
(* v * Unit, a time of t minutes is the integer t * TicksPerMinute.        *)
(* Sample indices are 0-based as in the program; the sequences that hold   *)
(* traces and the time axis are 1-based, read through At.                  *)
(***************************************************************************)
EXTENDS Integers, Sequences, FiniteSets, TLC

Unit == 2
TicksPerMinute == 4
NoneVal == -1

Datasets == {"Rhod", "FRET"}
\* the loaded files hold one reading, "#1", which the selector shows
reading_var == 1
Readings == {reading_var}

Max2(a, b) == IF a >= b THEN a ELSE b
Min2(a, b) == IF a <= b THEN a ELSE b
SetMax(S) == CHOOSE m \in S : \A e \in S : e <= m
SetMin(S) == CHOOSE m \in S : \A e \in S : m <= e
Abs(a) == IF a >= 0 THEN a ELSE 0 - a
At(s, i) == s[i + 1]

RECURSIVE SortedSeq(_)
SortedSeq(S) == IF S = {} THEN << >> ELSE <<SetMin(S)>> \o SortedSeq(S \ {SetMin(S)})

SeqSet(s) == {s[k] : k \in DOMAIN s}

(***************************************************************************)
(* Loaded data.  The time axis is shared by both channels and all readings *)
(* (0.5 min per sample, with one repeated time stamp and one gap); the     *)
(* normalized traces are fixed once the files are loaded.                  *)
(***************************************************************************)
time_data == <<0, 2, 4, 6, 8, 8, 12, 14, 16, 18, 20, 22, 24, 26>>

rhod_normalized ==
  [r \in Readings |-> <<2, 2, 2, 2, 2, 2, 4, 6, 10, 6, 4, 2, 2, 2>>]

fret_normalized ==
  [r \in Readings |-> <<2, 2, 2, 3, 6, 3, 2, 2, 2, 2, 2, 3, 6, 2>>]

Series(ds, r) == IF ds = "Rhod" THEN rhod_normalized[r] ELSE fret_normalized[r]

(***************************************************************************)
(* scipy.signal.find_peaks / peak_widths as the program calls them.        *)
(***************************************************************************)
\* _local_maxima_1d: midpoints of the plateaus that are strict local maxima
PlateauAhead(x, i) ==
  SetMin({j \in (i + 1)..(Len(x) - 1) : j = Len(x) - 1 \/ At(x, j) # At(x, i)})

LocalMaxima(x) ==
  {(i + PlateauAhead(x, i) - 1) \div 2 :
     i \in {j \in 1..(Len(x) - 2) :
              At(x, j - 1) < At(x, j) /\ At(x, PlateauAhead(x, j)) < At(x, j)}}

\* _select_by_peak_distance: highest peaks first, each kept peak removes
\* the peaks closer than distance
Priority(x, S) ==
  CHOOSE p \in S : \A q \in S :
     At(x, q) < At(x, p) \/ (At(x, q) = At(x, p) /\ q <= p)

RECURSIVE SelectByPeakDistance(_, _, _, _)
SelectByPeakDistance(x, todo, keep, distance) ==
  IF todo = {} THEN keep
  ELSE LET j == Priority(x, todo)
       IN IF j \in keep
          THEN SelectByPeakDistance(x, todo \ {j},
                 {k \in keep : k = j \/ Abs(k - j) >= distance}, distance)
          ELSE SelectByPeakDistance(x, todo \ {j}, keep, distance)

\* _peak_prominences (wlen = None): bases and prominence of peak p
LeftRun(x, p) == {i \in 0..p : \A j \in i..p : At(x, j) <= At(x, p)}
RightRun(x, p) == {i \in p..(Len(x) - 1) : \A j \in p..i : At(x, j) <= At(x, p)}
LeftMin(x, p) == SetMin({At(x, i) : i \in LeftRun(x, p)})
RightMin(x, p) == SetMin({At(x, i) : i \in RightRun(x, p)})
LeftBase(x, p) == SetMax({i \in LeftRun(x, p) : At(x, i) = LeftMin(x, p)})
RightBase(x, p) == SetMin({i \in RightRun(x, p) : At(x, i) = RightMin(x, p)})
Prominence(x, p) == At(x, p) - Max2(LeftMin(x, p), RightMin(x, p))

\* _peak_widths: the samples where the walk from the peak stops, at the
\* evaluation height h2 / 2 (h2 is twice the height, to stay integral)
WidthStopLeft(x, p, h2) ==
  SetMax({i \in LeftBase(x, p)..p : i = LeftBase(x, p) \/ 2 * At(x, i) <= h2})
WidthStopRight(x, p, h2) ==
  SetMin({i \in p..RightBase(x, p) : i = RightBase(x, p) \/ 2 * At(x, i) <= h2})

\* width at rel_height = 0.5 is at least wmin:
\*   (ir - nr/dr) - (il + nl/dl) >= wmin, cross-multiplied
HalfWidthAtLeast(x, p, wmin) ==
  LET h2 == 2 * At(x, p) - Prominence(x, p)
      il == WidthStopLeft(x, p, h2)
      ir == WidthStopRight(x, p, h2)
      li == 2 * At(x, il) < h2
      ri == 2 * At(x, ir) < h2
      nl == IF li THEN h2 - 2 * At(x, il) ELSE 0
      dl == IF li THEN 2 * At(x, il + 1) - 2 * At(x, il) ELSE 1
      nr == IF ri THEN h2 - 2 * At(x, ir) ELSE 0
      dr == IF ri THEN 2 * At(x, ir - 1) - 2 * At(x, ir) ELSE 1
  IN (ir - il - wmin) * dr * dl >= nr * dl + nl * dr

\* find_peaks(x, height, distance, prominence, width): the peak indices
FindPeaks(x, params) ==
  LET high == {p \in LocalMaxima(x) : At(x, p) >= params.height}
      apart == SelectByPeakDistance(x, high, high, params.distance)
      prom == {p \in apart : Prominence(x, p) >= params.prominence}
  IN SortedSeq({p \in prom : HalfWidthAtLeast(x, p, params.width)})

\* the per-peak property record detect_peaks builds from find_peaks' output
DetectedProperty(x, p) ==
  [peak_idx |-> p, peak_height |-> 2 * At(x, p),
   left_base |-> LeftBase(x, p), right_base |-> RightBase(x, p),
   prominence |-> 2 * Prominence(x, p), has_baseline |-> FALSE, baseline |-> 0]

(***************************************************************************)
(* Boundary estimators.  A boundary pair is <<left, right>>; NoneVal       *)
(* stands for Python's None.                                               *)
(***************************************************************************)
\* np.argmin over the samples lo..hi: the first index of the minimum
ArgMin(x, lo, hi) ==
  SetMin({i \in lo..hi : \A j \in lo..hi : At(x, i) <= At(x, j)})

\* PrevPeak with the fault of taking the first peak of the array
PrevPeak_first(peaks, k) == IF k > 1 THEN peaks[1] ELSE NoneVal
PrevPeak(peaks, k) == IF k > 1 THEN peaks[k - 1] ELSE NoneVal
NextPeak(peaks, k) == IF k < Len(peaks) THEN peaks[k + 1] ELSE NoneVal

\* _derive_peak_boundaries, for the peak at position k of peaks
ValleyBoundary(x, peaks, k) ==
  LET length == Len(x)
      peak_idx == peaks[k]
      prev_peak == PrevPeak(peaks, k)
      next_peak == NextPeak(peaks, k)
      span == IF next_peak # NoneVal /\ next_peak > peak_idx
              THEN Max2(3, (next_peak - peak_idx) \div 2)
              ELSE Max2(3, (length * 2) \div 100)
      search_start == IF prev_peak # NoneVal /\ prev_peak < peak_idx
                      THEN prev_peak
                      ELSE Max2(0, peak_idx - span)
      left0 == IF peak_idx <= search_start
               THEN Max2(0, peak_idx - 1)
               ELSE ArgMin(x, search_start, peak_idx - 1)
      padding == IF left0 < peak_idx
                 THEN Max2(3, peak_idx - left0)
                 ELSE Max2(3, (length * 2) \div 100)
      search_stop == IF next_peak # NoneVal /\ next_peak > peak_idx
                     THEN next_peak
                     ELSE Min2(length - 1, peak_idx + padding)
      right0 == IF peak_idx + 1 >= search_stop
                THEN Min2(length - 1, peak_idx + 1)
                ELSE ArgMin(x, peak_idx + 1, search_stop)
      right_base == IF right0 <= peak_idx THEN Min2(length - 1, peak_idx + 1) ELSE right0
      left_base == IF left0 >= peak_idx THEN Max2(0, peak_idx - 1) ELSE left0
  IN <<left_base, right_base>>

_derive_peak_boundaries(x, peaks) ==
  [k \in DOMAIN peaks |-> ValleyBoundary(x, peaks, k)]

\* _peak_width_boundary_estimates: peak_widths at rel_height = 1.0, the left
\* intersection floored and the right one ceiled, clipped to the trace
Clip(v, lo, hi) == Max2(lo, Min2(hi, v))

WidthBoundary(x, p) ==
  LET h2 == 2 * (At(x, p) - Prominence(x, p))
  IN <<Clip(WidthStopLeft(x, p, h2), 0, Len(x) - 1),
       Clip(WidthStopRight(x, p, h2), 0, Len(x) - 1)>>

\* WidthBoundary tabulated for the loaded traces
Traces == {rhod_normalized[r] : r \in Readings} \cup {fret_normalized[r] : r \in Readings}
WidthRow(x) == [p \in 0..(Len(x) - 1) |-> WidthBoundary(x, p)]
WidthTable == [x \in Traces |-> WidthRow(x)]

_peak_width_boundary_estimates(x, peaks) ==
  [k \in DOMAIN peaks |-> WidthTable[x][peaks[k]]]

tail_margin(length) == Max2(5, (2 * length + 99) \div 100)
tail_guard(length) == Max2(0, length - tail_margin(length))

\* the reconciliation and clamping of _select_hybrid_boundaries for the peak
\* at position k, given the candidates of the three estimators
HybridBoundary(length, peaks, k, valley, width, ref) ==
  LET peak_idx == peaks[k]
      prev_peak == PrevPeak(peaks, k)
      next_peak == NextPeak(peaks, k)
      l1 == IF width[1] # NoneVal THEN width[1] ELSE valley[1]
      r1 == IF width[2] # NoneVal THEN width[2] ELSE valley[2]
      l2 == IF l1 = NoneVal /\ ref[1] # NoneVal THEN ref[1] ELSE l1
      r2 == IF r1 = NoneVal /\ ref[2] # NoneVal THEN ref[2] ELSE r1
      l3 == IF l2 = NoneVal THEN peak_idx - 1 ELSE l2
      r3 == IF r2 = NoneVal THEN peak_idx + 1 ELSE r2
      l4 == Max2(0, l3)
      r4 == Min2(length - 1, r3)
      midpoint_left == prev_peak + Max2(1, (peak_idx - prev_peak) \div 2)
      l5 == IF prev_peak # NoneVal
            THEN Max2(prev_peak + 1, Min2(l4, midpoint_left))
            ELSE Max2(0, l4)
      midpoint_right == peak_idx + Max2(1, (next_peak - peak_idx) \div 2)
      r5 == IF next_peak # NoneVal
            THEN Min2(next_peak - 1, Min2(r4, midpoint_right))
            ELSE Min2(r4, tail_guard(length))
      left == IF l5 >= peak_idx THEN Max2(peak_idx - 1, 0) ELSE l5
      r6 == IF r5 <= peak_idx THEN Min2(peak_idx + 1, tail_guard(length)) ELSE r5
      right == IF r6 <= left THEN Min2(length - 1, left + 1) ELSE r6
  IN <<left, right>>

RefBoundary(reference_props, k) ==
  IF k <= Len(reference_props)
  THEN <<reference_props[k].left_base, reference_props[k].right_base>>
  ELSE <<NoneVal, NoneVal>>

\* _select_hybrid_boundaries with the fault of starting one sample outside
\* the stored boundaries when a record is stored
_select_hybrid_boundaries_from_stored(x, peaks, reference_props) ==
  LET valley_bounds == _derive_peak_boundaries(x, peaks)
      width_bounds == _peak_width_boundary_estimates(x, peaks)
  IN [k \in DOMAIN peaks |->
        HybridBoundary(Len(x), peaks, k, valley_bounds[k],
                       IF k <= Len(reference_props)
                       THEN <<reference_props[k].left_base - 1,
                              reference_props[k].right_base + 1>>
                       ELSE width_bounds[k],
                       RefBoundary(reference_props, k))]
_select_hybrid_boundaries(x, peaks, reference_props) ==
  LET valley_bounds == _derive_peak_boundaries(x, peaks)
      width_bounds == _peak_width_boundary_estimates(x, peaks)
  IN [k \in DOMAIN peaks |->
        HybridBoundary(Len(x), peaks, k, valley_bounds[k], width_bounds[k],
                       RefBoundary(reference_props, k))]

\* _build_single_peak_property with both boundaries given (the only way the
\* program calls it).  peak_height, prominence and baseline are stored as
\* twice the fixed-point value so that the mean of two samples is integral.
_build_single_peak_property(x, peak_idx, left_in, right_in) ==
  LET length == Len(x)
      left_base == Max2(0, Min2(left_in, peak_idx - 1))
      right_base == Min2(length - 1, Max2(right_in, peak_idx + 1))
      peak_value == At(x, peak_idx)
      left_val == IF 0 <= left_base /\ left_base < length THEN At(x, left_base) ELSE peak_value
      right_val == IF 0 <= right_base /\ right_base < length THEN At(x, right_base) ELSE peak_value
      baseline2 == left_val + right_val
  IN [peak_idx |-> peak_idx, peak_height |-> 2 * peak_value,
      left_base |-> left_base, right_base |-> right_base,
      prominence |-> Max2(0, 2 * peak_value - baseline2),
      has_baseline |-> TRUE, baseline |-> baseline2]

(***************************************************************************)
(* Time axis helpers and the greedy pairing.                               *)
(***************************************************************************)
\* int(np.abs(time_data - t).argmin()): the first sample nearest to time t
ArgMinDistance(t) ==
  SetMin({i \in 0..(Len(time_data) - 1) :
            \A j \in 0..(Len(time_data) - 1) :
               Abs(At(time_data, i) - t) <= Abs(At(time_data, j) - t)})

\* click positions (event.xdata) and typed times, in ticks
ClickTimes == {0, 30}

\* ArgMinDistance tabulated for the positions used
NearestTable == [t \in ClickTimes |-> ArgMinDistance(t)]
NearestIndex(t) == NearestTable[t]

RECURSIVE InsertSorted(_, _)
InsertSorted(s, v) ==
  IF s = << >> THEN <<v>>
  ELSE IF v < Head(s) THEN <<v>> \o s
  ELSE <<Head(s)>> \o InsertSorted(Tail(s), v)

RECURSIVE SortValues(_)
SortValues(s) ==
  IF s = << >> THEN << >> ELSE InsertSorted(SortValues(Tail(s)), Head(s))

\* twice the median step of the positive time differences (0 when none)
MedianStep2 ==
  LET diffs == [i \in 1..(Len(time_data) - 1) |-> time_data[i + 1] - time_data[i]]
      positive == SortValues(SelectSeq(diffs, LAMBDA d : d > 0))
      n == Len(positive)
  IN IF n = 0 THEN 0
     ELSE IF n % 2 = 1 THEN 2 * positive[(n + 1) \div 2]
     ELSE positive[n \div 2] + positive[n \div 2 + 1]

\* max(1, int(_estimate_points_per_minute() * 0.7)), in samples
ClickTolerance ==
  IF Len(time_data) < 2 \/ MedianStep2 <= 0 THEN 1
  ELSE Max2(1, (7 * 2 * TicksPerMinute) \div (10 * MedianStep2))

PeakTime(idx) == At(time_data, idx)

\* SortByTime with the fault of keeping the list order
SortByTime_unsorted(s) == s
\* sorted(metrics, key = time of the peak): stable, ascending
RECURSIVE InsertByTime(_, _)
InsertByTime(s, idx) ==
  IF s = << >> THEN <<idx>>
  ELSE IF PeakTime(idx) < PeakTime(Head(s)) THEN <<idx>> \o s
  ELSE <<Head(s)>> \o InsertByTime(Tail(s), idx)

RECURSIVE SortByTime(_)
SortByTime(s) ==
  IF s = << >> THEN << >>
  ELSE InsertByTime(SortByTime(SubSeq(s, 1, Len(s) - 1)), s[Len(s)])

\* BestCandidate with the fault of taking the largest delay
BestCandidate_latest(fret_sorted, used_fret, rhod_idx) ==
  LET eligible == {k \in DOMAIN fret_sorted :
                     /\ fret_sorted[k] \notin used_fret
                     /\ ~(PeakTime(fret_sorted[k]) <= PeakTime(rhod_idx))}
      best == {k \in eligible : \A j \in eligible :
                 PeakTime(fret_sorted[k]) >= PeakTime(fret_sorted[j])}
  IN IF eligible = {} THEN 0 ELSE SetMin(best)
\* BestCandidate with the fault of not skipping the peaks in used_fret
BestCandidate_reuse(fret_sorted, used_fret, rhod_idx) ==
  LET eligible == {k \in DOMAIN fret_sorted :
                     ~(PeakTime(fret_sorted[k]) <= PeakTime(rhod_idx))}
      best == {k \in eligible : \A j \in eligible :
                 PeakTime(fret_sorted[k]) <= PeakTime(fret_sorted[j])}
  IN IF eligible = {} THEN 0 ELSE SetMin(best)
\* the inner loop of _match_peak_pairs: position in fret_sorted of the unused
\* later peak with the smallest delay, the first one on equal delay; 0 if none
BestCandidate(fret_sorted, used_fret, rhod_idx) ==
  LET eligible == {k \in DOMAIN fret_sorted :
                     /\ fret_sorted[k] \notin used_fret
                     /\ ~(PeakTime(fret_sorted[k]) <= PeakTime(rhod_idx))}
      best == {k \in eligible : \A j \in eligible :
                 PeakTime(fret_sorted[k]) - PeakTime(rhod_idx)
                   <= PeakTime(fret_sorted[j]) - PeakTime(rhod_idx)}
  IN IF eligible = {} THEN 0 ELSE SetMin(best)

RECURSIVE MatchLoop(_, _, _)
MatchLoop(rhod_sorted, fret_sorted, used_fret) ==
  IF rhod_sorted = << >> THEN << >>
  ELSE LET rhod_idx == Head(rhod_sorted)
           k == BestCandidate(fret_sorted, used_fret, rhod_idx)
       IN IF k = 0
          THEN MatchLoop(Tail(rhod_sorted), fret_sorted, used_fret)
          ELSE <<[rhod |-> rhod_idx, fret |-> fret_sorted[k],
                  delay |-> PeakTime(fret_sorted[k]) - PeakTime(rhod_idx)]>>
               \o MatchLoop(Tail(rhod_sorted), fret_sorted,
                            used_fret \cup {fret_sorted[k]})

\* _match_peak_pairs over the peak indices of the two metric lists
_match_peak_pairs(rhod_metrics, fret_metrics) ==
  IF rhod_metrics = << >> \/ fret_metrics = << >> THEN << >>
  ELSE MatchLoop(SortByTime(rhod_metrics), SortByTime(fret_metrics), {})

(***************************************************************************)
(* Peak metrics.  A sample of a trace is a fixed-point number or NaN (the   *)
(* not-a-number of the floats: every comparison with it is false, every     *)
(* sum or difference with it is NaN).  baseline, peak_value and amplitude   *)
(* of a metric record are twice the fixed-point value, like the baseline of *)
(* a property record; auc is twice the integral of these over the ticks;    *)
(* rise_time, decay_time and width are in ticks.                            *)
(***************************************************************************)
NaN == -1000
IsNaN(v) == v = NaN
Twice(v) == IF IsNaN(v) THEN NaN ELSE 2 * v
FloatSub(a, b) == IF IsNaN(a) \/ IsNaN(b) THEN NaN ELSE a - b

\* max(0.0, v) of Python: v only when v > 0.0, so 0.0 for NaN
FloorAtZero(v) == IF ~IsNaN(v) /\ v > 0 THEN v ELSE 0

\* data_series.min(): the least sample that is not NaN, NaN when there is none
SeriesMin(x) ==
  LET numbers == SeqSet(x) \ {NaN}
  IN IF numbers = {} THEN NaN ELSE SetMin(numbers)

\* ChosenBaseline with the fault of looking at the right boundary only
ChosenBaseline_right_only(x, props, left_idx, right_idx) ==
  LET baseline_values == {Twice(At(x, right_idx))} \ {NaN}
  IN IF baseline_values # {} THEN SetMin(baseline_values) ELSE Twice(SeriesMin(x))
\* the baseline _collect_peak_metrics chooses: the least candidate that is
\* neither None nor NaN, the minimum of the trace when there is none
ChosenBaseline(x, props, left_idx, right_idx) ==
  LET candidates == (IF props.has_baseline THEN {props.baseline} ELSE {})
                      \cup {Twice(At(x, left_idx)), Twice(At(x, right_idx))}
      baseline_values == candidates \ {NaN}
  IN IF baseline_values # {} THEN SetMin(baseline_values) ELSE Twice(SeriesMin(x))

\* trapezoid(signal_segment - baseline, time_segment), doubled
RECURSIVE TrapezoidSum(_, _, _, _, _)
TrapezoidSum(t, x, baseline, i, right_idx) ==
  IF i >= right_idx THEN 0
  ELSE (At(t, i + 1) - At(t, i)) * ((2 * At(x, i) - baseline) + (2 * At(x, i + 1) - baseline))
         + TrapezoidSum(t, x, baseline, i + 1, right_idx)

Trapezoid(t, x, baseline, left_idx, right_idx) ==
  IF left_idx >= right_idx THEN 0
  ELSE IF IsNaN(baseline) \/ \E i \in left_idx..right_idx : IsNaN(At(x, i)) THEN NaN
  ELSE TrapezoidSum(t, x, baseline, left_idx, right_idx)

\* _rise_decay_times: <<rise_time, decay_time>>
_rise_decay_times(t, x, peak_idx, left_idx, right_idx, baseline) ==
  LET amplitude == FloatSub(Twice(At(x, peak_idx)), baseline)
      \* sample >= threshold and sample <= threshold, threshold = baseline +
      \* 0.1 * amplitude, all terms multiplied by 10
      reaches(idx) == ~IsNaN(At(x, idx)) /\ ~IsNaN(amplitude)
                        /\ 10 * 2 * At(x, idx) >= 10 * baseline + amplitude
      falls(idx) == ~IsNaN(At(x, idx)) /\ ~IsNaN(amplitude)
                      /\ 10 * 2 * At(x, idx) <= 10 * baseline + amplitude
      rising == {idx \in left_idx..peak_idx : reaches(idx)}
      falling == {idx \in peak_idx..right_idx : falls(idx)}
      rise_idx == IF rising # {} THEN SetMin(rising) ELSE left_idx
      decay_idx == IF falling # {} THEN SetMin(falling) ELSE right_idx
  IN IF ~IsNaN(amplitude) /\ amplitude <= 0 THEN <<0, 0>>
     ELSE <<Max2(At(t, peak_idx) - At(t, rise_idx), 0),
            Max2(At(t, decay_idx) - At(t, peak_idx), 0)>>

\* the metric record of the property record at position k of the list
PeakMetric(t, x, props, k) ==
  LET peak_idx == props.peak_idx
      left_idx == Max2(0, props.left_base)
      right_idx == Min2(Len(x) - 1, props.right_base)
      baseline == ChosenBaseline(x, props, left_idx, right_idx)
      peak_value == Twice(At(x, peak_idx))
      times == _rise_decay_times(t, x, peak_idx, left_idx, right_idx, baseline)
  IN [ordinal |-> k, peak_idx |-> peak_idx,
      left_idx |-> left_idx, right_idx |-> right_idx,
      baseline |-> baseline, peak_value |-> peak_value,
      amplitude |-> FloorAtZero(FloatSub(peak_value, baseline)),
      auc |-> FloorAtZero(Trapezoid(t, x, baseline, left_idx, right_idx)),
      rise_time |-> times[1], decay_time |-> times[2],
      width |-> At(t, right_idx) - At(t, left_idx)]

_collect_peak_metrics(t, x, peak_properties) ==
  [k \in DOMAIN peak_properties |-> PeakMetric(t, x, peak_properties[k], k)]

(***************************************************************************)
(* State.  peaks["Rhod"] is rhod_peaks, peaks["FRET"] is fret_peaks (a     *)
(* dictionary reading -> ascending index array), peak_properties likewise; *)
(* a dictionary is a function whose domain is the set of its keys.         *)
(* table[ds] is the edit table of the channel as _populate_table filled    *)
(* it: one row per peak with the displayed match id (0 for blank).         *)
(* last_op names the last request that changed the store or was refused;   *)
(* a handler that returns without effect otherwise leaves it alone.        *)
(* pairing holds one call of _match_peak_pairs on its own: the two metric  *)
(* lists handed in, and the pairs it returned once it has run.             *)
(* analysis is the analysis window analyze_data opened last: the metric    *)
(* lists and match maps its export buttons were created with, and the rows *)
(* the last export from it wrote.                                          *)
(* measuring holds one call of _collect_peak_metrics on its own: the time  *)
(* axis, the trace and the property list handed in, and the records it     *)
(* returned once it has run.                                               *)
(* resolving holds one call of _select_hybrid_boundaries on its own: the    *)
(* trace length, the peak array, the candidates of the estimators and the   *)
(* boundaries it returned once it has run.                                  *)
(* normalizing holds the loading of one raw column on its own: the column,  *)
(* and what normalization stored and reported once it has run.              *)
(***************************************************************************)
VARIABLES peaks, peak_properties, manual_match_overrides,
          edit_mode, table, last_op, pairing, analysis, measuring,
          resolving, normalizing

store_vars == <<peaks, peak_properties, manual_match_overrides,
                edit_mode, table, last_op>>
vars == <<peaks, peak_properties, manual_match_overrides,
          edit_mode, table, last_op, pairing, analysis, measuring,
          resolving, normalizing>>

rhod_peaks == peaks["Rhod"]
fret_peaks == peaks["FRET"]
rhod_peak_properties == peak_properties["Rhod"]
fret_peak_properties == peak_properties["FRET"]

\* cap on the number of peaks a reading holds (both channels) for a manual add
MaxPeaks == 2

EmptyDict == << >>
Put(d, key, v) == [x \in DOMAIN d \cup {key} |-> IF x = key THEN v ELSE d[x]]
Pop(d, key) == [x \in DOMAIN d \ {key} |-> d[x]]
Get(d, key, default) == IF key \in DOMAIN d THEN d[key] ELSE default

\* np.delete(arr, pos) / del lst[pos], pos 1-based here
DeleteAt(s, pos) == SubSeq(s, 1, pos - 1) \o SubSeq(s, pos + 1, Len(s))
PositionOf(s, v) == SetMin({k \in DOMAIN s : s[k] = v})

\* order = np.argsort(new_peaks); [seq[i] for i in order], applied to a
\* sorted array with one element appended at the end
InsertPosition(sorted, v) == Cardinality({k \in DOMAIN sorted : sorted[k] <= v}) + 1
\* ReorderAppended with the fault of leaving the appended element at the end
ReorderAppended_kept(s, pos) == s
ReorderAppended(s, pos) ==
  SubSeq(s, 1, pos - 1) \o <<s[Len(s)]>> \o SubSeq(s, pos, Len(s) - 1)

\* _clear_manual_match_override with the fault of leaving the map alone
_clear_manual_match_override_kept(mmo, ds, reading_key, peak_idx) == mmo
\* _clear_manual_match_override
_clear_manual_match_override(mmo, ds, reading_key, peak_idx) ==
  IF reading_key \notin DOMAIN mmo[ds] THEN mmo
  ELSE LET overrides == mmo[ds][reading_key]
       IN IF peak_idx \notin DOMAIN overrides THEN mmo
          ELSE IF DOMAIN overrides = {peak_idx}
          THEN [mmo EXCEPT ![ds] = Pop(mmo[ds], reading_key)]
          ELSE [mmo EXCEPT ![ds] = Put(mmo[ds], reading_key, Pop(overrides, peak_idx))]

\* _reset_manual_matches with the fault of visiting the first channel only
_reset_manual_matches_rhod_only(mmo, reading_key) ==
  [ds \in Datasets |-> IF ds = "Rhod" THEN Pop(mmo[ds], reading_key) ELSE mmo[ds]]
\* _reset_manual_matches
_reset_manual_matches(mmo, reading_key) ==
  [ds \in Datasets |-> Pop(mmo[ds], reading_key)]

\* the peak indices of _collect_peak_metrics' records, in list order
MetricIndices(props) == [k \in DOMAIN props |-> props[k].peak_idx]

\* AutoMap with the fault of numbering the pairs from 0
AutoMap_from_zero(ds, pairs) ==
  [idx \in {IF ds = "Rhod" THEN pairs[k].rhod ELSE pairs[k].fret : k \in DOMAIN pairs} |->
     SetMax({k \in DOMAIN pairs : (IF ds = "Rhod" THEN pairs[k].rhod ELSE pairs[k].fret) = idx}) - 1]
\* the automatic match ids of _refresh_edit_tables: rank of the pair
AutoMap(ds, pairs) ==
  [idx \in {IF ds = "Rhod" THEN pairs[k].rhod ELSE pairs[k].fret : k \in DOMAIN pairs} |->
     SetMax({k \in DOMAIN pairs : (IF ds = "Rhod" THEN pairs[k].rhod ELSE pairs[k].fret) = idx})]

\* _resolve_match_map: the overrides it leaves stored for the reading ...
CleanedManual(mmo, ds, reading_key, metrics) ==
  LET manual_for_reading == Get(mmo[ds], reading_key, EmptyDict)
  IN [idx \in DOMAIN manual_for_reading \cap SeqSet(metrics) |-> manual_for_reading[idx]]

ResolveStored(mmo, ds, reading_key, metrics) ==
  LET cleaned == CleanedManual(mmo, ds, reading_key, metrics)
  IN IF DOMAIN cleaned # {}
     THEN [mmo EXCEPT ![ds] = Put(mmo[ds], reading_key, cleaned)]
     ELSE [mmo EXCEPT ![ds] = Pop(mmo[ds], reading_key)]

\* ... and the display id per peak (0 for blank)
_resolve_match_map(mmo, ds, reading_key, metrics, auto_map) ==
  LET cleaned == CleanedManual(mmo, ds, reading_key, metrics)
  IN [idx \in SeqSet(metrics) |->
        IF idx \in DOMAIN cleaned THEN cleaned[idx]
        ELSE IF idx \in DOMAIN auto_map THEN auto_map[idx]
        ELSE 0]

\* _refresh_edit_tables: the override map and the tables it leaves behind
RefreshOverrides(em, props, mmo, reading) ==
  IF ~em THEN mmo
  ELSE LET rk == reading
           rm == MetricIndices(Get(props["Rhod"], rk, << >>))
           fm == MetricIndices(Get(props["FRET"], rk, << >>))
       IN ResolveStored(ResolveStored(mmo, "Rhod", rk, rm), "FRET", rk, fm)

RefreshTable(em, props, mmo, reading, old_table) ==
  IF ~em THEN old_table
  ELSE LET rk == reading
           metrics == [ds \in Datasets |-> MetricIndices(Get(props[ds], rk, << >>))]
           pairs == _match_peak_pairs(metrics["Rhod"], metrics["FRET"])
       IN [ds \in Datasets |->
             LET resolved == _resolve_match_map(mmo, ds, rk, metrics[ds], AutoMap(ds, pairs))
             IN [k \in DOMAIN metrics[ds] |->
                   [peak_idx |-> metrics[ds][k], match |-> resolved[metrics[ds][k]]]]]

EmptyTable == [ds \in Datasets |-> << >>]

\* no call of _match_peak_pairs on its own is in progress
NoCall == [rhod_metrics |-> << >>, fret_metrics |-> << >>,
           matched |-> FALSE, pairs |-> << >>]

\* no analysis window has been opened
NoWindow == [open |-> FALSE,
             metrics |-> [ds \in Datasets |-> << >>],
             match_map |-> [ds \in Datasets |-> EmptyDict],
             exported |-> << >>]

\* no call of _select_hybrid_boundaries on its own is in progress
NoResolve == [length |-> 0, peaks |-> << >>, candidates |-> << >>,
              from_widths |-> FALSE, resolved |-> FALSE, final_bounds |-> << >>]

\* no file has been loaded on its own
NoLoad == [channel |-> "Rhod", column |-> << >>, numeric |-> TRUE,
           loaded |-> FALSE, stored |-> FALSE,
           normalized |-> << >>, reported |-> FALSE]

\* no call of _collect_peak_metrics on its own is in progress
NoMeasure == [time_series |-> << >>, data_series |-> << >>,
              properties |-> << >>, measured |-> FALSE, metrics |-> << >>]

Init ==
  /\ peaks = [ds \in Datasets |-> EmptyDict]
  /\ peak_properties = [ds \in Datasets |-> EmptyDict]
  /\ manual_match_overrides = [ds \in Datasets |-> EmptyDict]
  /\ edit_mode = FALSE
  /\ table = EmptyTable
  /\ last_op = "init"
  /\ pairing = NoCall
  /\ analysis = NoWindow
  /\ measuring = NoMeasure
  /\ resolving = NoResolve
  /\ normalizing = NoLoad

\* what every handler that ends in update_plot / _notify_peaks_updated does
\* to the overrides and the tables, given the rest of the new state
Refreshed(mmo_mid) ==
  /\ manual_match_overrides' =
       RefreshOverrides(edit_mode', peak_properties', mmo_mid, reading_var)
  /\ table' = RefreshTable(edit_mode', peak_properties', mmo_mid, reading_var, table)

(***************************************************************************)
(* Entry fields.  The text of a field is empty, not a number, or a number: *)
(* [kind, val].  For the detection fields and the time cell val is the     *)
(* fixed-point value, for the match cell it is the integer typed.          *)
(***************************************************************************)
Blank == [kind |-> "empty", val |-> 0]
Word == [kind |-> "text", val |-> 0]
Num(v) == [kind |-> "num", val |-> v]

\* int(float(value)): truncation towards zero
TruncInt(v) == IF v >= 0 THEN v \div Unit ELSE 0 - ((0 - v) \div Unit)

parse_float(field) ==
  IF field.kind = "num" THEN [ok |-> TRUE, value |-> field.val]
  ELSE [ok |-> FALSE, value |-> 0]

parse_positive_int(field) ==
  IF field.kind = "num" /\ TruncInt(field.val) > 0
  THEN [ok |-> TRUE, value |-> TruncInt(field.val)]
  ELSE [ok |-> FALSE, value |-> 0]

_get_detection_params(vars_map) ==
  LET height == parse_float(vars_map.height)
      prominence == parse_float(vars_map.prominence)
      distance == parse_positive_int(vars_map.distance)
      width == parse_positive_int(vars_map.width)
  IN [valid |-> height.ok /\ prominence.ok /\ distance.ok /\ width.ok,
      height |-> Max2(height.value, 0),
      prominence |-> Max2(prominence.value, 0),
      distance |-> distance.value,
      width |-> width.value]

\* the detection field contents tried: 1.5 / 0.5 / 2 / 1 and variations
BaseFields ==
  [height |-> Num(3), prominence |-> Num(1), distance |-> Num(4), width |-> Num(2)]

FieldChoices ==
  { BaseFields,
    [BaseFields EXCEPT !.distance = Num(7)],
    [BaseFields EXCEPT !.width = Num(6)],
    [BaseFields EXCEPT !.distance = Blank],
    [BaseFields EXCEPT !.height = Word],
    [BaseFields EXCEPT !.width = Num(1)] }

\* the field contents of the two channels when Detect is pressed: one
\* channel varies while the other holds the base values
DetectionInputs ==
  {[Rhod |-> v, FRET |-> BaseFields] : v \in FieldChoices}
    \cup {[Rhod |-> BaseFields, FRET |-> v] : v \in FieldChoices}

TimeInputs == {Blank, Word} \cup {Num(t) : t \in ClickTimes}
MatchInputs == {Blank, Word, Num(0), Num(1)}
\* the deletes asked for: indices of the loaded reading, among them one that
\* is no sample of the trace, and an index of a reading never loaded
DeleteRequests ==
  {<<reading_var, idx>> : idx \in {0, 4, 8, 999}} \cup {<<reading_var + 1, 8>>}

(***************************************************************************)
(* Handlers.                                                               *)
(***************************************************************************)
\* the property records built from find_peaks' result (left_base and
\* right_base still those of find_peaks)
DetectedSeed(x, found) ==
  [k \in DOMAIN found |-> DetectedProperty(x, found[k])]

\* props['left_base'] = int(left_base); props['right_base'] = int(right_base)
DetectedProps(seed, hybrid) ==
  [k \in DOMAIN seed |->
     [seed[k] EXCEPT !.left_base = hybrid[k][1], !.right_base = hybrid[k][2]]]

\* find_peaks, the records and the boundaries of detect_peaks, tabulated in
\* this order per trace and field contents (the traces are fixed)
FoundTable ==
  [x \in Traces |-> [v \in FieldChoices |->
     IF _get_detection_params(v).valid
     THEN FindPeaks(x, _get_detection_params(v))
     ELSE << >>]]
SeedTable ==
  [x \in Traces |-> [v \in FieldChoices |->
     DetectedSeed(x, FoundTable[x][v])]]
HybridTable ==
  [x \in Traces |-> [v \in FieldChoices |->
     _select_hybrid_boundaries(x, FoundTable[x][v], SeedTable[x][v])]]
DetectionTable ==
  [x \in Traces |-> [v \in FieldChoices |->
     DetectedProps(SeedTable[x][v], HybridTable[x][v])]]

detect_peaks(fields) ==
  LET rk == reading_var
      mmo1 == _reset_manual_matches(manual_match_overrides, rk)
      params == [ds \in Datasets |-> _get_detection_params(fields[ds])]
  IN IF ~params["Rhod"].valid \/ ~params["FRET"].valid
     THEN /\ manual_match_overrides' = mmo1
          /\ last_op' = "detect_invalid"
          /\ UNCHANGED <<peaks, peak_properties, edit_mode, table>>
     ELSE /\ peaks' = [ds \in Datasets |->
                         Put(peaks[ds], rk, MetricIndices(DetectionTable[Series(ds, rk)][fields[ds]]))]
          /\ peak_properties' = [ds \in Datasets |->
                         Put(peak_properties[ds], rk, DetectionTable[Series(ds, rk)][fields[ds]])]
          /\ UNCHANGED edit_mode
          /\ Refreshed(mmo1)
          /\ last_op' = "detect"

\* clear_peaks with the fault of not resetting the manual matches
clear_peaks_overrides_kept ==
  LET rk == reading_var
  IN /\ peaks' = [ds \in Datasets |-> Pop(peaks[ds], rk)]
     /\ peak_properties' = [ds \in Datasets |-> Pop(peak_properties[ds], rk)]
     /\ UNCHANGED edit_mode
     /\ Refreshed(manual_match_overrides)
     /\ last_op' = "clear"
\* clear_peaks with the fault of leaving the FRET property list in place
clear_peaks_fret_properties_kept ==
  LET rk == reading_var
  IN /\ peaks' = [ds \in Datasets |-> Pop(peaks[ds], rk)]
     /\ peak_properties' = [peak_properties EXCEPT !["Rhod"] = Pop(@, rk)]
     /\ UNCHANGED edit_mode
     /\ Refreshed(_reset_manual_matches(manual_match_overrides, rk))
     /\ last_op' = "clear"
clear_peaks ==
  LET rk == reading_var
  IN /\ peaks' = [ds \in Datasets |-> Pop(peaks[ds], rk)]
     /\ peak_properties' = [ds \in Datasets |-> Pop(peak_properties[ds], rk)]
     /\ UNCHANGED edit_mode
     /\ Refreshed(_reset_manual_matches(manual_match_overrides, rk))
     /\ last_op' = "clear"

\* the property record _add_peak_via_click appends
ClickedProperty(x, clicked_idx) ==
  [peak_idx |-> clicked_idx, peak_height |-> 2 * At(x, clicked_idx),
   left_base |-> Max2(0, clicked_idx - 20),
   right_base |-> Min2(Len(x) - 1, clicked_idx + 20),
   prominence |-> 2 * (At(x, clicked_idx) - Unit),
   has_baseline |-> FALSE, baseline |-> 0]

TotalPeaks(rk) ==
  Len(Get(peaks["Rhod"], rk, << >>)) + Len(Get(peaks["FRET"], rk, << >>))

_add_peak_via_click(ds, xdata) ==
  LET rk == reading_var
      series == Series(ds, rk)
      clicked_idx == NearestIndex(xdata)
      cur == Get(peaks[ds], rk, << >>)
      props == Get(peak_properties[ds], rk, << >>)
      pos == InsertPosition(cur, clicked_idx)
  IN /\ TotalPeaks(rk) < MaxPeaks
     /\ IF clicked_idx \in SeqSet(cur)
        THEN UNCHANGED vars
        ELSE /\ peaks' = [peaks EXCEPT ![ds] =
                            Put(@, rk, ReorderAppended(cur \o <<clicked_idx>>, pos))]
             /\ peak_properties' = [peak_properties EXCEPT ![ds] =
                            Put(@, rk, ReorderAppended(
                                  props \o <<ClickedProperty(series, clicked_idx)>>, pos))]
             /\ UNCHANGED edit_mode
             /\ Refreshed(manual_match_overrides)
             /\ last_op' = "add"

\* RemovePosition with the fault of keeping the reading's entry when its
\* array becomes empty
RemovePosition_empty_kept(d, rk, pos, arr_len) == Put(d, rk, DeleteAt(d[rk], pos))
\* removal of the entry at position pos (1-based) of a channel's arrays; the
\* reading's entries go when the array becomes empty
RemovePosition(d, rk, pos, arr_len) ==
  IF arr_len = 1 THEN Pop(d, rk) ELSE Put(d, rk, DeleteAt(d[rk], pos))

_remove_peak_via_click(ds, xdata) ==
  LET rk == reading_var
      cur == Get(peaks[ds], rk, << >>)
      clicked_idx == NearestIndex(xdata)
      nearest == SetMin({k \in DOMAIN cur : \A j \in DOMAIN cur :
                           Abs(cur[k] - clicked_idx) <= Abs(cur[j] - clicked_idx)})
  IN IF cur = << >> \/ Abs(cur[nearest] - clicked_idx) > ClickTolerance
     THEN UNCHANGED vars
     ELSE /\ peaks' = [peaks EXCEPT ![ds] = RemovePosition(@, rk, nearest, Len(cur))]
          /\ peak_properties' = [peak_properties EXCEPT ![ds] =
                                   RemovePosition(@, rk, nearest, Len(cur))]
          /\ UNCHANGED edit_mode
          /\ Refreshed(_clear_manual_match_override(
                         manual_match_overrides, ds, rk, cur[nearest]))
          /\ last_op' = "remove"

\* MatchingPositions with the fault of taking the nearest peak for a match
MatchingPositions_nearest(cur, peak_idx) ==
  {k \in DOMAIN cur : \A j \in DOMAIN cur :
     Abs(cur[k] - peak_idx) <= Abs(cur[j] - peak_idx)}
\* indices = np.where(peaks == peak_idx)[0], as 1-based positions
MatchingPositions(cur, peak_idx) == {k \in DOMAIN cur : cur[k] = peak_idx}

\* last_op tells what was asked for: "delete_missing" when the index asked
\* for is not a peak of the (channel, reading), "delete" otherwise
_delete_peak(ds, reading_key, peak_idx) ==
  LET cur == Get(peaks[ds], reading_key, << >>)
      indices == MatchingPositions(cur, peak_idx)
      asked == IF peak_idx \in SeqSet(cur) THEN "delete" ELSE "delete_missing"
  IN IF reading_key \notin DOMAIN peaks[ds] \/ indices = {}
     THEN /\ last_op' = asked
          /\ UNCHANGED <<peaks, peak_properties, manual_match_overrides,
                         edit_mode, table>>
     ELSE LET idx == SetMin(indices)
              props1 == IF reading_key \in DOMAIN peak_properties[ds]
                           /\ idx <= Len(peak_properties[ds][reading_key])
                        THEN Put(peak_properties[ds], reading_key,
                                 DeleteAt(peak_properties[ds][reading_key], idx))
                        ELSE peak_properties[ds]
          IN /\ peaks' = [peaks EXCEPT ![ds] = RemovePosition(@, reading_key, idx, Len(cur))]
             /\ peak_properties' = [peak_properties EXCEPT ![ds] =
                                      IF Len(cur) = 1 THEN Pop(props1, reading_key) ELSE props1]
             /\ UNCHANGED edit_mode
             /\ Refreshed(_clear_manual_match_override(
                            manual_match_overrides, ds, reading_key, peak_idx))
             /\ last_op' = asked

\* _rebuild_peak_properties with the fault of keeping the old property list
_rebuild_peak_properties_stale(series, sorted_peaks, existing_props) == existing_props
\* _rebuild_peak_properties: the property list rebuilt for a sorted peak array
_rebuild_peak_properties(series, sorted_peaks, existing_props) ==
  LET boundaries == _select_hybrid_boundaries(series, sorted_peaks, existing_props)
  IN [k \in DOMAIN sorted_peaks |->
        _build_single_peak_property(series, sorted_peaks[k],
                                    boundaries[k][1], boundaries[k][2])]

\* CarryOverride with the fault of leaving the override under the old index
CarryOverride_left(mmo, ds, rk, old_idx, nearest_idx) == mmo
\* overrides[nearest_idx] = overrides.pop(old_idx)
CarryOverride(mmo, ds, rk, old_idx, nearest_idx) ==
  LET overrides == Get(mmo[ds], rk, EmptyDict)
  IN IF old_idx \in DOMAIN overrides
     THEN [mmo EXCEPT ![ds] =
             Put(@, rk, Put(Pop(overrides, old_idx), nearest_idx, overrides[old_idx]))]
     ELSE mmo

\* IndexOccupied with the fault of never finding the target occupied
IndexOccupied_unchecked(cur, nearest_idx, old_idx) == FALSE
\* nearest_idx in peaks and nearest_idx != old_idx
IndexOccupied(cur, nearest_idx, old_idx) ==
  nearest_idx \in SeqSet(cur) /\ nearest_idx # old_idx

\* the time cell of table row `row` of channel ds is committed with `entry`;
\* last_op tells what was asked for: "move_duplicate" when the time snaps to
\* the index of another peak of the channel, "move" otherwise
_commit_time_value(ds, row, entry) ==
  LET rk == reading_var
      old_idx == table[ds][row].peak_idx
      nearest_idx == NearestIndex(entry.val)
      cur == Get(peaks[ds], rk, << >>)
      asked == IF nearest_idx \in SeqSet(cur) THEN "move_duplicate" ELSE "move"
      quiet(outcome) ==
        /\ last_op' = outcome
        /\ UNCHANGED <<peaks, peak_properties, manual_match_overrides,
                       edit_mode, table>>
  IN /\ edit_mode
     /\ row \in DOMAIN table[ds]
     /\ IF entry.kind # "num" THEN UNCHANGED vars
        ELSE IF old_idx \notin SeqSet(cur) THEN UNCHANGED vars
        ELSE IF nearest_idx = old_idx THEN UNCHANGED vars
        ELSE IF IndexOccupied(cur, nearest_idx, old_idx) THEN quiet(asked)
        ELSE LET replaced == [cur EXCEPT ![PositionOf(cur, old_idx)] = nearest_idx]
                 new_peaks == SortValues(replaced)
             IN /\ peaks' = [peaks EXCEPT ![ds] = Put(@, rk, new_peaks)]
                /\ peak_properties' = [peak_properties EXCEPT ![ds] =
                     Put(@, rk, _rebuild_peak_properties(Series(ds, rk), new_peaks,
                                   Get(peak_properties[ds], rk, << >>)))]
                /\ UNCHANGED edit_mode
                /\ Refreshed(CarryOverride(manual_match_overrides, ds, rk,
                                           old_idx, nearest_idx))
                /\ last_op' = asked

\* _commit_match_value with the fault of not looking for the id in the other
\* rows of the table
_commit_match_value_unchecked(ds, row, entry) ==
  LET rk == reading_var
      peak_idx == table[ds][row].peak_idx
      overrides == Get(manual_match_overrides[ds], rk, EmptyDict)
      match_id == entry.val
  IN /\ edit_mode
     /\ row \in DOMAIN table[ds]
     /\ IF entry.kind = "empty"
        THEN /\ UNCHANGED <<peaks, peak_properties, edit_mode>>
             /\ Refreshed(_clear_manual_match_override(
                            manual_match_overrides, ds, rk, peak_idx))
             /\ last_op' = "match_clear"
        ELSE IF entry.kind # "num" \/ match_id <= 0
        THEN /\ last_op' = "match_invalid"
             /\ UNCHANGED <<peaks, peak_properties, manual_match_overrides,
                            edit_mode, table>>
        ELSE /\ UNCHANGED <<peaks, peak_properties, edit_mode>>
             /\ Refreshed([manual_match_overrides EXCEPT ![ds] =
                             Put(@, rk, Put(overrides, peak_idx, match_id))])
             /\ last_op' = "match_set"
\* the match cell of table row `row` of channel ds is committed with `entry`
_commit_match_value(ds, row, entry) ==
  LET rk == reading_var
      peak_idx == table[ds][row].peak_idx
      overrides == Get(manual_match_overrides[ds], rk, EmptyDict)
      match_id == entry.val
      shown_elsewhere ==
        \E k \in DOMAIN table[ds] :
           k # row /\ table[ds][k].match # 0 /\ table[ds][k].match = match_id
      quiet(outcome) ==
        /\ last_op' = outcome
        /\ UNCHANGED <<peaks, peak_properties, manual_match_overrides,
                       edit_mode, table>>
  IN /\ edit_mode
     /\ row \in DOMAIN table[ds]
     /\ IF entry.kind = "empty"
        THEN /\ UNCHANGED <<peaks, peak_properties, edit_mode>>
             /\ Refreshed(_clear_manual_match_override(
                            manual_match_overrides, ds, rk, peak_idx))
             /\ last_op' = "match_clear"
        ELSE IF entry.kind # "num" \/ match_id <= 0 THEN quiet("match_invalid")
        ELSE IF shown_elsewhere THEN quiet("match_duplicate")
        ELSE /\ UNCHANGED <<peaks, peak_properties, edit_mode>>
             /\ Refreshed([manual_match_overrides EXCEPT ![ds] =
                             Put(@, rk, Put(overrides, peak_idx, match_id))])
             /\ last_op' = "match_set"

\* while the pane is hidden nothing reads the tables; they are refilled when
\* it is shown again, so the hidden tables are kept empty here
toggle_edit_mode ==
  /\ edit_mode' = ~edit_mode
  /\ UNCHANGED <<peaks, peak_properties>>
  /\ IF edit_mode'
     THEN Refreshed(manual_match_overrides)
     ELSE /\ table' = EmptyTable
          /\ UNCHANGED manual_match_overrides
  /\ last_op' = "toggle"

\* on_click: button 1 adds (edit pane open or shift held), button 3 removes
on_click(ds, xdata, button, shift) ==
  IF button = 3 THEN _remove_peak_via_click(ds, xdata)
  ELSE (edit_mode \/ shift) /\ _add_peak_via_click(ds, xdata)

Detect ==
  /\ \E fields \in DetectionInputs : detect_peaks(fields)
  /\ UNCHANGED <<pairing, analysis, measuring, resolving, normalizing>>
Clear ==
  /\ clear_peaks
  /\ UNCHANGED <<pairing, analysis, measuring, resolving, normalizing>>
Click ==
  /\ \E ds \in Datasets, xdata \in ClickTimes, button \in {1, 3}, shift \in BOOLEAN :
        on_click(ds, xdata, button, shift)
  /\ UNCHANGED <<pairing, analysis, measuring, resolving, normalizing>>
Delete ==
  /\ \E ds \in Datasets, req \in DeleteRequests : _delete_peak(ds, req[1], req[2])
  /\ UNCHANGED <<pairing, analysis, measuring, resolving, normalizing>>
Move ==
  /\ \E ds \in Datasets : \E row \in DOMAIN table[ds], entry \in TimeInputs :
        _commit_time_value(ds, row, entry)
  /\ UNCHANGED <<pairing, analysis, measuring, resolving, normalizing>>
Match ==
  /\ \E ds \in Datasets : \E row \in DOMAIN table[ds], entry \in MatchInputs :
        _commit_match_value(ds, row, entry)
  /\ UNCHANGED <<pairing, analysis, measuring, resolving, normalizing>>
Toggle ==
  /\ toggle_edit_mode
  /\ UNCHANGED <<pairing, analysis, measuring, resolving, normalizing>>

Next == Detect \/ Clear \/ Click \/ Delete \/ Move \/ Match \/ Toggle

Spec == Init /\ [][Next]_vars

(***************************************************************************)
(* The analysis window.  analyze_data computes the metric lists and the    *)
(* match maps once and hands them to the commands of the export buttons;   *)
(* the main window stays usable while the analysis window is open.         *)
(***************************************************************************)
\* rhod_metrics and fret_metrics of analyze_data
WindowMetrics(props) ==
  [ds \in Datasets |->
     _collect_peak_metrics(time_data, Series(ds, reading_var),
                           Get(props[ds], reading_var, << >>))]

\* the window analyze_data opens on the property lists props and the
\* override map mmo
Window(props, mmo) ==
  LET rk == reading_var
      metrics == WindowMetrics(props)
      indices == [ds \in Datasets |-> MetricIndices(metrics[ds])]
      matched_pairs == _match_peak_pairs(indices["Rhod"], indices["FRET"])
  IN [open |-> TRUE,
      metrics |-> metrics,
      match_map |-> [ds \in Datasets |->
                       IF metrics[ds] # << >>
                       THEN _resolve_match_map(mmo, ds, rk, indices[ds],
                                               AutoMap(ds, matched_pairs))
                       ELSE EmptyDict],
      exported |-> << >>]

\* the override map the two _resolve_match_map calls of analyze_data leave
WindowOverrides(props, mmo) ==
  LET rk == reading_var
      rm == MetricIndices(Get(props["Rhod"], rk, << >>))
      fm == MetricIndices(Get(props["FRET"], rk, << >>))
      mmo1 == IF rm # << >> THEN ResolveStored(mmo, "Rhod", rk, rm) ELSE mmo
  IN IF fm # << >> THEN ResolveStored(mmo1, "FRET", rk, fm) ELSE mmo1

\* the reading has a peak on some channel
peaks_present ==
  \E ds \in Datasets :
     reading_var \in DOMAIN peaks[ds] /\ Len(peaks[ds][reading_var]) > 0

\* analyze_data; when the reading has no peaks a dialog offers to detect
\* them first (result), with the field contents `fields`.  After that
\* detect_peaks the reading has no override, so the two _resolve_match_map
\* calls leave the override map as detect_peaks left it.
analyze_data(result, fields) ==
  IF peaks_present
     THEN /\ manual_match_overrides' =
               WindowOverrides(peak_properties, manual_match_overrides)
          /\ analysis' = Window(peak_properties, manual_match_overrides)
          /\ last_op' = "analyze"
          /\ UNCHANGED <<peaks, peak_properties, edit_mode, table>>
     ELSE IF result
     THEN /\ detect_peaks(fields)
          /\ analysis' = Window(peak_properties', manual_match_overrides')
     ELSE UNCHANGED <<store_vars, analysis>>

\* _build_peak_export_rows; a blank Match ID is 0.  The rounding of the
\* numeric columns to 4 and 6 decimals changes no fixed-point value.
_build_peak_export_rows(dataset, metrics, match_map) ==
  [k \in DOMAIN metrics |->
     [Dataset |-> dataset,
      Match_ID |-> Get(match_map, metrics[k].peak_idx, 0),
      Peak_Number |-> metrics[k].ordinal,
      Peak_Time |-> At(time_data, metrics[k].peak_idx),
      Peak_Signal |-> metrics[k].peak_value,
      Baseline_Level |-> metrics[k].baseline,
      Amplitude |-> metrics[k].amplitude,
      Width |-> metrics[k].width,
      AUC |-> metrics[k].auc,
      Rise_Time |-> metrics[k].rise_time,
      Decay_Time |-> metrics[k].decay_time,
      Left_Index |-> metrics[k].left_idx,
      Right_Index |-> metrics[k].right_idx]]

\* the rows are written unless there are none or the file dialog is cancelled
WriteRows(rows, saved) ==
  IF rows = << >> \/ ~saved
  THEN UNCHANGED <<store_vars, analysis>>
  ELSE /\ analysis' = [analysis EXCEPT !.exported = rows]
       /\ last_op' = "export"
       /\ UNCHANGED <<peaks, peak_properties, manual_match_overrides,
                      edit_mode, table>>

\* the command of an "Export Rhod Peaks" / "Export FRET Peaks" button
_export_peak_metrics(dataset, saved) ==
  /\ analysis.open
  /\ WriteRows(_build_peak_export_rows(dataset, analysis.metrics[dataset],
                                       analysis.match_map[dataset]), saved)

\* the command of the "Export Rhod & FRET Peaks" button
_export_all_peak_metrics(saved) ==
  /\ analysis.open
  /\ WriteRows(_build_peak_export_rows("Rhod", analysis.metrics["Rhod"],
                                       analysis.match_map["Rhod"])
                 \o _build_peak_export_rows("FRET", analysis.metrics["FRET"],
                                            analysis.match_map["FRET"]), saved)

\* the dialog and the detection fields play no part when the reading has peaks
Analyze ==
  /\ \E result \in BOOLEAN, fields \in DetectionInputs :
        /\ peaks_present => result /\ fields = [ds \in Datasets |-> BaseFields]
        /\ analyze_data(result, fields)
  /\ UNCHANGED <<pairing, measuring, resolving, normalizing>>
Export ==
  /\ \E saved \in BOOLEAN :
        \/ \E dataset \in Datasets : _export_peak_metrics(dataset, saved)
        \/ _export_all_peak_metrics(saved)
  /\ UNCHANGED <<pairing, measuring, resolving, normalizing>>

\* a session at the analysis window: detection, clearing, deletes and match
\* edits in the main window, analyses and exports
NextSession == Detect \/ Clear \/ Delete \/ Match \/ Toggle \/ Analyze \/ Export

SpecSession == Init /\ [][NextSession]_vars

(***************************************************************************)
(* _match_peak_pairs on its own.  The metric lists are lists of distinct   *)
(* peak indices in any order (the function sorts them itself); the indices *)
(* are those of the times 1.0, 1.5, 2.0, 2.0, 5.0 and 6.0 min.             *)
(***************************************************************************)
PairIndices == {2, 3, 4, 5, 10, 12}
MaxRhodMetrics == 2
MaxFretMetrics == 3

MetricLists(n) ==
  UNION {{s \in [1..k -> PairIndices] : \A i, j \in 1..k : i # j => s[i] # s[j]} :
           k \in 0..n}

InitPair ==
  /\ peaks = [ds \in Datasets |-> EmptyDict]
  /\ peak_properties = [ds \in Datasets |-> EmptyDict]
  /\ manual_match_overrides = [ds \in Datasets |-> EmptyDict]
  /\ edit_mode = FALSE
  /\ table = EmptyTable
  /\ last_op = "init"
  /\ pairing \in {[rhod_metrics |-> r, fret_metrics |-> f,
                    matched |-> FALSE, pairs |-> << >>] :
                     r \in MetricLists(MaxRhodMetrics), f \in MetricLists(MaxFretMetrics)}
  /\ analysis = NoWindow
  /\ measuring = NoMeasure
  /\ resolving = NoResolve
  /\ normalizing = NoLoad

MatchPairs ==
  /\ ~pairing.matched
  /\ pairing' = [pairing EXCEPT
                    !.matched = TRUE,
                    !.pairs = _match_peak_pairs(pairing.rhod_metrics, pairing.fret_metrics)]
  /\ UNCHANGED <<store_vars, analysis, measuring, resolving, normalizing>>

NextPair == MatchPairs

SpecPair == InitPair /\ [][NextPair]_vars

(***************************************************************************)
(* _collect_peak_metrics on its own.  The trace has MetricLen samples, each *)
(* 0.5, 1.0 or NaN (an empty cell of the sheet); the time axis is any       *)
(* non-decreasing axis over the ticks 0, 2, 4; the property list holds one  *)
(* record whose boundaries bracket its peak, without a baseline or with the *)
(* baseline 0.0, 1.0 or NaN.                                                *)
(***************************************************************************)
MetricLen == 3

MetricSamples == {Unit \div 2, Unit, NaN}

MetricAxes ==
  {t \in [1..MetricLen -> {0, 2, 4}] : \A i, j \in 1..MetricLen : i < j => t[i] <= t[j]}

MetricProperties(x) ==
  {[peak_idx |-> p, peak_height |-> Twice(At(x, p)),
    left_base |-> l, right_base |-> r, prominence |-> 0,
    has_baseline |-> h, baseline |-> b] :
     p \in 0..(MetricLen - 1), l \in 0..(MetricLen - 1), r \in 0..(MetricLen - 1),
     h \in BOOLEAN, b \in {0, Twice(Unit), NaN}}

InitMetrics ==
  /\ peaks = [ds \in Datasets |-> EmptyDict]
  /\ peak_properties = [ds \in Datasets |-> EmptyDict]
  /\ manual_match_overrides = [ds \in Datasets |-> EmptyDict]
  /\ edit_mode = FALSE
  /\ table = EmptyTable
  /\ last_op = "init"
  /\ pairing = NoCall
  /\ analysis = NoWindow
  /\ \E t \in MetricAxes, x \in [1..MetricLen -> MetricSamples] :
       \E props \in MetricProperties(x) :
          /\ props.left_base <= props.peak_idx
          /\ props.peak_idx <= props.right_base
          /\ ~props.has_baseline => props.baseline = 0
          /\ measuring = [time_series |-> t, data_series |-> x,
                          properties |-> <<props>>,
                          measured |-> FALSE, metrics |-> << >>]
  /\ resolving = NoResolve
  /\ normalizing = NoLoad

Measure ==
  /\ ~measuring.measured
  /\ measuring' = [measuring EXCEPT
                     !.measured = TRUE,
                     !.metrics = _collect_peak_metrics(measuring.time_series,
                                                       measuring.data_series,
                                                       measuring.properties)]
  /\ UNCHANGED <<store_vars, pairing, analysis, resolving, normalizing>>

SpecMetrics == InitMetrics /\ [][Measure]_vars

(***************************************************************************)
(* _select_hybrid_boundaries on its own.  The trace has ResolveLen samples; *)
(* the peak array is any ascending array of up to MaxResolvePeaks indices;  *)
(* each peak has one candidate pair with left <= peak <= right, which both  *)
(* estimators can give: it comes from peak_widths (from_widths) or, when    *)
(* peak_widths raised, from the valley search.                              *)
(***************************************************************************)
ResolveLen == 7
MaxResolvePeaks == 3

ResolvePeaks ==
  {SortedSeq(S) : S \in {T \in SUBSET (0..(ResolveLen - 1)) :
                            T # {} /\ Cardinality(T) <= MaxResolvePeaks}}

ResolveCandidates(sorted_peaks) ==
  {c \in [DOMAIN sorted_peaks -> (0..(ResolveLen - 1)) \X (0..(ResolveLen - 1))] :
     \A k \in DOMAIN sorted_peaks :
        c[k][1] <= sorted_peaks[k] /\ sorted_peaks[k] <= c[k][2]}

InitResolve ==
  /\ peaks = [ds \in Datasets |-> EmptyDict]
  /\ peak_properties = [ds \in Datasets |-> EmptyDict]
  /\ manual_match_overrides = [ds \in Datasets |-> EmptyDict]
  /\ edit_mode = FALSE
  /\ table = EmptyTable
  /\ last_op = "init"
  /\ pairing = NoCall
  /\ analysis = NoWindow
  /\ measuring = NoMeasure
  /\ normalizing = NoLoad
  /\ \E sorted_peaks \in ResolvePeaks, from_widths \in BOOLEAN :
       \E c \in ResolveCandidates(sorted_peaks) :
          resolving = [length |-> ResolveLen, peaks |-> sorted_peaks,
                       candidates |-> c, from_widths |-> from_widths,
                       resolved |-> FALSE, final_bounds |-> << >>]

\* the loop of _select_hybrid_boundaries over the peaks
Resolve ==
  /\ ~resolving.resolved
  /\ resolving' = [resolving EXCEPT
        !.resolved = TRUE,
        !.final_bounds =
           [k \in DOMAIN resolving.peaks |->
              HybridBoundary(resolving.length, resolving.peaks, k,
                             resolving.candidates[k],
                             IF resolving.from_widths THEN resolving.candidates[k]
                             ELSE <<NoneVal, NoneVal>>,
                             <<NoneVal, NoneVal>>)]]
  /\ UNCHANGED <<store_vars, pairing, analysis, measuring, normalizing>>

SpecResolve == InitResolve /\ [][Resolve]_vars

(***************************************************************************)
(* Loading one raw column on its own.  A raw sample is a count 0, 1 or 2;   *)
(* a column read with a text cell in it is not numeric and every arithmetic *)
(* on it raises.  A normalized sample is a fraction num/den, or the inf or  *)
(* nan the float division gives; nothing is rounded.                        *)
(***************************************************************************)
LoadLen == 7
BaselineWindow == 6

RECURSIVE WindowSum(_, _)
\* the sum of the first n values of a sequence
WindowSum(values, n) ==
  IF n = 0 THEN 0 ELSE values[n] + WindowSum(values, n - 1)

\* normalized = column / column.iloc[:6].mean()
normalize_rhod_data(column) ==
  LET n == Min2(BaselineWindow, Len(column))
      total == WindowSum(column, n)
  IN [i \in DOMAIN column |->
        IF total # 0 THEN [kind |-> "finite", num |-> column[i] * n, den |-> total]
        ELSE IF column[i] = 0 THEN [kind |-> "nan", num |-> 0, den |-> 0]
        ELSE [kind |-> "inf", num |-> 0, den |-> 0]]

\* inverted = 1 / column; normalized = inverted / inverted.iloc[:6].mean()
normalize_fret_data(column) ==
  LET n == Min2(BaselineWindow, Len(column))
      inverted2 == [i \in DOMAIN column |-> IF column[i] = 0 THEN 0 ELSE 2 \div column[i]]
      average_inf == \E j \in 1..n : column[j] = 0
      total2 == WindowSum(inverted2, n)
  IN [i \in DOMAIN column |->
        IF average_inf
        THEN IF column[i] = 0 THEN [kind |-> "nan", num |-> 0, den |-> 0]
             ELSE [kind |-> "finite", num |-> 0, den |-> 1]
        ELSE IF column[i] = 0 THEN [kind |-> "inf", num |-> 0, den |-> 0]
        ELSE [kind |-> "finite", num |-> inverted2[i] * n, den |-> total2]]

InitLoad ==
  /\ peaks = [ds \in Datasets |-> EmptyDict]
  /\ peak_properties = [ds \in Datasets |-> EmptyDict]
  /\ manual_match_overrides = [ds \in Datasets |-> EmptyDict]
  /\ edit_mode = FALSE
  /\ table = EmptyTable
  /\ last_op = "init"
  /\ pairing = NoCall
  /\ analysis = NoWindow
  /\ measuring = NoMeasure
  /\ resolving = NoResolve
  /\ \E ds \in Datasets, numeric \in BOOLEAN, column \in [1..LoadLen -> 0..2] :
       normalizing = [channel |-> ds, column |-> column, numeric |-> numeric,
                      loaded |-> FALSE, stored |-> FALSE,
                      normalized |-> << >>, reported |-> FALSE]

\* load_rhod_data / load_fret_data for the column: the division raises only
\* for a column that is not numeric, which the except clause prints and
\* skips; every other column is stored and the load ends with "Success"
Load ==
  /\ ~normalizing.loaded
  /\ normalizing' =
       IF ~normalizing.numeric
       THEN [normalizing EXCEPT !.loaded = TRUE, !.reported = TRUE]
       ELSE [normalizing EXCEPT
               !.loaded = TRUE,
               !.stored = TRUE,
               !.normalized = IF normalizing.channel = "Rhod"
                              THEN normalize_rhod_data(normalizing.column)
                              ELSE normalize_fret_data(normalizing.column)]
  /\ UNCHANGED <<store_vars, pairing, analysis, measuring, resolving>>

SpecLoad == InitLoad /\ [][Load]_vars

(***************************************************************************)
(* Properties.                                                             *)
(***************************************************************************)
PeaksOf(ds) == Get(peaks[ds], reading_var, << >>)
PropsOf(ds) == Get(peak_properties[ds], reading_var, << >>)
OverridesOf(ds) == Get(manual_match_overrides[ds], reading_var, EmptyDict)

StrictlyAscending(s) == \A i, j \in DOMAIN s : i < j => s[i] < s[j]

\* 0 <= left_base < peak_idx < right_base <= length - 1
WithinTrace(ds, p) ==
  /\ 0 <= p.left_base
  /\ p.left_base < p.peak_idx
  /\ p.peak_idx < p.right_base
  /\ p.right_base <= Len(Series(ds, reading_var)) - 1

\* C1: in every reachable state the peak index array of every (channel,
\* reading) is strictly ascending: sorted, with no index twice.
C1_SortedUnique ==
  \A ds \in Datasets : \A rk \in DOMAIN peaks[ds] : StrictlyAscending(peaks[ds][rk])

\* C1 happens: a move has just put the peak that was last first (the FRET
\* peaks 4 and 12 can become 0 and 4 only by moving 12 in front of 4)
C1_MovedInFront == last_op = "move" /\ PeaksOf("FRET") = <<0, 4>>

\* C2: after a successful detect_peaks every stored property record of both
\* channels has 0 <= left_base < peak_idx < right_base <= length - 1.
C2_DetectBounds ==
  last_op = "detect" =>
    \A ds \in Datasets : \A k \in DOMAIN PropsOf(ds) : WithinTrace(ds, PropsOf(ds)[k])

\* C2 happens: detection has just stored a peak within the last
\* max(5, ceil(0.02 * length)) samples of the FRET trace
C2_TailPeakDetected ==
  /\ last_op = "detect"
  /\ \E k \in DOMAIN PropsOf("FRET") :
        PropsOf("FRET")[k].peak_idx >= tail_guard(Len(Series("FRET", reading_var)))

\* C3: the property record a manual add creates for the new peak has
\* 0 <= left_base < peak_idx < right_base <= length - 1, at every sample index.
C3_AddBounds ==
  [][last_op' = "add" =>
       \A ds \in Datasets :
         \A k \in DOMAIN Get(peak_properties'[ds], reading_var, << >>) :
           LET p == peak_properties'[ds][reading_var][k]
           IN p.peak_idx \notin SeqSet(PeaksOf(ds)) => WithinTrace(ds, p)]_vars

\* C3 happens: the only peak of the reading has just been added at sample 0
C3_AddedAtFirstSample ==
  /\ last_op = "add"
  /\ PeaksOf("Rhod") = <<0>>
  /\ PeaksOf("FRET") = << >>

\* C4: after a successful move every property record of the moved channel has
\* 0 <= left_base < peak_idx < right_base <= length - 1.
C4_MoveBounds ==
  [][last_op' = "move" =>
       \A ds \in Datasets :
         peaks'[ds] # peaks[ds] =>
           \A k \in DOMAIN Get(peak_properties'[ds], reading_var, << >>) :
             WithinTrace(ds, peak_properties'[ds][reading_var][k])]_vars

\* C4 happens: the only peak of the reading has just been moved to the last
\* sample of the trace
C4_MovedToLastSample ==
  /\ last_op = "move"
  /\ PeaksOf("Rhod") = <<Len(Series("Rhod", reading_var)) - 1>>
  /\ PeaksOf("FRET") = << >>

\* C5: in every reachable state the property list of a (channel, reading) is
\* index-aligned with its peak array: same length, and properties[k].peak_idx
\* = peaks[k] at every position k.
C5_IndexAligned ==
  \A ds \in Datasets :
    \A rk \in DOMAIN peaks[ds] \cup DOMAIN peak_properties[ds] :
      LET arr == Get(peaks[ds], rk, << >>)
          props == Get(peak_properties[ds], rk, << >>)
      IN /\ Len(props) = Len(arr)
         /\ \A k \in DOMAIN arr : props[k].peak_idx = arr[k]

\* C5 happens: a peak has just been added in front of a detected one
C5_AddedInFront == last_op = "add" /\ PeaksOf("Rhod") = <<0, 8>>

\* C6: the list _match_peak_pairs returns is a one-to-one matching (no FRET
\* peak and no Rhod peak occurs in two records) and every record has delay > 0.
C6_OneToOne ==
  pairing.matched =>
    LET pairs == pairing.pairs
    IN /\ \A i, j \in DOMAIN pairs :
            i # j => pairs[i].fret # pairs[j].fret /\ pairs[i].rhod # pairs[j].rhod
       /\ \A k \in DOMAIN pairs : pairs[k].delay > 0

\* C6 happens: two calcium peaks had the same nearest later sensor peak
C6_Contested ==
  /\ pairing.matched
  /\ pairing.rhod_metrics = <<2, 3>>
  /\ pairing.fret_metrics = <<4, 12>>
  /\ Len(pairing.pairs) = 2

\* calcium peak a is handled before calcium peak b: earlier in time, or at the
\* same time and earlier in the list handed in
Precedes(list, a, b) ==
  \/ PeakTime(a) < PeakTime(b)
  \/ PeakTime(a) = PeakTime(b) /\ PositionOf(list, a) < PositionOf(list, b)

\* the sensor peaks a calcium peak can still take at its turn
Candidates(c) ==
  LET used == {pairing.pairs[j].fret : j \in
                 {i \in DOMAIN pairing.pairs :
                    Precedes(pairing.rhod_metrics, pairing.pairs[i].rhod, c)}}
  IN {f \in SeqSet(pairing.fret_metrics) \ used : PeakTime(f) > PeakTime(c)}

\* C7: _match_peak_pairs handles the calcium peaks in ascending time order;
\* each takes the unused strictly later sensor peak of least delay (on equal
\* delay the first in ascending time order) and stays unpaired exactly when
\* there is none; calcium 1.0, 5.0 min and sensor 1.5, 2.0, 6.0 min give the
\* pairs 1.0 -> 1.5 and 5.0 -> 6.0.
C7_GreedyPairing ==
  pairing.matched =>
    LET pairs == pairing.pairs
        paired == {pairs[k].rhod : k \in DOMAIN pairs}
    IN /\ \A i, j \in DOMAIN pairs :
            i < j => Precedes(pairing.rhod_metrics, pairs[i].rhod, pairs[j].rhod)
       /\ \A k \in DOMAIN pairs :
            /\ pairs[k].rhod \in SeqSet(pairing.rhod_metrics)
            /\ pairs[k].fret \in Candidates(pairs[k].rhod)
            /\ pairs[k].delay = PeakTime(pairs[k].fret) - PeakTime(pairs[k].rhod)
            /\ \A f \in Candidates(pairs[k].rhod) :
                 /\ PeakTime(pairs[k].fret) <= PeakTime(f)
                 /\ PeakTime(f) = PeakTime(pairs[k].fret) =>
                      PositionOf(pairing.fret_metrics, pairs[k].fret)
                        <= PositionOf(pairing.fret_metrics, f)
       /\ \A c \in SeqSet(pairing.rhod_metrics) : c \notin paired <=> Candidates(c) = {}
       /\ pairing.rhod_metrics = <<2, 10>> /\ pairing.fret_metrics = <<3, 4, 12>> =>
            pairs = <<[rhod |-> 2, fret |-> 3, delay |-> 2],
                      [rhod |-> 10, fret |-> 12, delay |-> 4]>>

\* C7 happens: the call with calcium 1.0, 5.0 min and sensor 1.5, 2.0, 6.0 min
\* has returned
C7_Scenario ==
  /\ pairing.matched
  /\ pairing.rhod_metrics = <<2, 10>>
  /\ pairing.fret_metrics = <<3, 4, 12>>
  /\ Len(pairing.pairs) = 2

\* C8: a detect_peaks call with an invalid detection parameter leaves the peak
\* sets, the property lists and the manual match overrides as they were.
C8_InvalidDetectKeepsStore ==
  [][last_op' = "detect_invalid" =>
       UNCHANGED <<peaks, peak_properties, manual_match_overrides>>]_vars

\* C8 happens: detection has just been refused while the reading held peaks
C8_InvalidDetectSeen ==
  /\ last_op = "detect_invalid"
  /\ PeaksOf("Rhod") # << >>
  /\ edit_mode

\* C9: deleting an index that is not a peak of the (channel, reading) changes
\* no peak set, property list or manual override.
C9_DeleteMissingNoop ==
  [][last_op' = "delete_missing" =>
       UNCHANGED <<peaks, peak_properties, manual_match_overrides>>]_vars

\* C9 happens: such a delete has just been asked for while the reading held
\* peaks and an override
C9_MissingDeleteSeen ==
  /\ last_op = "delete_missing"
  /\ PeaksOf("Rhod") # << >>
  /\ PeaksOf("FRET") # << >>
  /\ DOMAIN OverridesOf("Rhod") # {}

\* C10: a move to a time whose nearest index is already a peak of the channel
\* changes no peak array, property list or manual override.
C10_MoveDuplicateRejected ==
  [][last_op' = "move_duplicate" =>
       UNCHANGED <<peaks, peak_properties, manual_match_overrides>>]_vars

\* C10 happens: such a move has just been asked for, of a peak that carries an
\* override
C10_DuplicateMoveSeen ==
  /\ last_op = "move_duplicate"
  /\ \E ds \in Datasets : Len(PeaksOf(ds)) >= 2 /\ DOMAIN OverridesOf(ds) # {}

C12_ClearRemovesReading ==
  last_op = "clear" =>
    \A ds \in Datasets :
      /\ reading_var \notin DOMAIN peaks[ds]
      /\ reading_var \notin DOMAIN peak_properties[ds]
      /\ reading_var \notin DOMAIN manual_match_overrides[ds]

\* C12 happens: the reading has just been cleared with the edit pane closed
\* (no table refresh follows that could drop overrides on its own)
C12_ClearedPaneClosed == last_op = "clear" /\ ~edit_mode

Removed(ds, i) ==
  LET cur == PeaksOf(ds)
      props == PropsOf(ds)
  IN /\ Get(peaks'[ds], reading_var, << >>) = SelectSeq(cur, LAMBDA p : p # i)
     /\ Get(peak_properties'[ds], reading_var, << >>)
          = SelectSeq(props, LAMBDA r : r.peak_idx # i)
     /\ i \notin DOMAIN Get(manual_match_overrides'[ds], reading_var, EmptyDict)
     /\ Len(cur) = 1 =>
          /\ reading_var \notin DOMAIN peaks'[ds]
          /\ reading_var \notin DOMAIN peak_properties'[ds]

\* C14: a delete of an existing peak i, asked for by its index or by a click
\* whose nearest peak i is within the tolerance, removes exactly i from the
\* peak array and the record of i from the property list, keeps the other
\* peaks and records as they were and in order, leaves no override keyed by i,
\* and removes the reading's entries when the array becomes empty.
C14_DeleteExact ==
  [][/\ \A ds \in Datasets : \A i \in SeqSet(PeaksOf(ds)) :
          _delete_peak(ds, reading_var, i) => Removed(ds, i)
     /\ \A ds \in Datasets : \A xdata \in ClickTimes :
          LET c == NearestIndex(xdata)
              near == {i \in SeqSet(PeaksOf(ds)) :
                         /\ Abs(i - c) <= ClickTolerance
                         /\ \A q \in SeqSet(PeaksOf(ds)) : Abs(i - c) <= Abs(q - c)}
          IN near # {} /\ _remove_peak_via_click(ds, xdata) =>
               \E i \in near : Removed(ds, i)]_vars

\* C14 happens: the later of two sensor peaks has just been deleted by its
\* index while the earlier one carried an override
C14_DeletedSecond ==
  /\ last_op = "delete"
  /\ PeaksOf("FRET") = <<4>>
  /\ 4 \in DOMAIN OverridesOf("FRET")

\* C15: after a successful move of a peak of a channel from index old to index
\* new, an override that was keyed by old is keyed by new with the same match
\* id, no override is keyed by old, and the overrides of all other peaks (of
\* either channel) are as they were.
C15_MoveCarriesOverride ==
  [][last_op' = "move" =>
       \A ds \in Datasets :
         LET before == SeqSet(PeaksOf(ds))
             after == SeqSet(Get(peaks'[ds], reading_var, << >>))
             was == OverridesOf(ds)
             now == Get(manual_match_overrides'[ds], reading_var, EmptyDict)
         IN IF before = after THEN now = was
            ELSE \E old \in before \ after : \E new \in after \ before :
                   /\ before \ after = {old}
                   /\ after \ before = {new}
                   /\ old \notin DOMAIN now
                   /\ old \in DOMAIN was => new \in DOMAIN now /\ now[new] = was[old]
                   /\ \A k \in (DOMAIN was \cup DOMAIN now) \ {old, new} :
                        k \in DOMAIN was /\ k \in DOMAIN now /\ now[k] = was[k]]_vars

\* C15 happens: the only peak of the reading, carrying an override, has just
\* been moved to the first sample and carries it there
C15_OverrideMoved ==
  /\ last_op = "move"
  /\ PeaksOf("Rhod") = <<0>>
  /\ PeaksOf("FRET") = << >>
  /\ 0 \in DOMAIN OverridesOf("Rhod")

\* C16: a value committed to the match cell of a peak becomes the peak's
\* override only if it is a positive integer that no other row of the
\* channel's table displays (as an override or as an automatic pairing id);
\* a non-integer, a non-positive value or such a duplicate leaves the
\* override map unchanged.
C16_MatchValidated ==
  [][\A ds \in Datasets : \A row \in DOMAIN table[ds] :
       \A entry \in MatchInputs \ {Blank} :
         _commit_match_value(ds, row, entry) =>
           LET p == table[ds][row].peak_idx
               displayed == {table[ds][k].match : k \in DOMAIN table[ds] \ {row}} \ {0}
               now == Get(manual_match_overrides'[ds], reading_var, EmptyDict)
           IN IF entry.kind = "num" /\ entry.val > 0 /\ entry.val \notin displayed
              THEN p \in DOMAIN now /\ now[p] = entry.val
              ELSE UNCHANGED manual_match_overrides]_vars

\* C16 happens: an id shown for another peak has just been refused while the
\* channel held an override that had been accepted
C16_DuplicateRefused ==
  /\ last_op = "match_duplicate"
  /\ \E ds \in Datasets : Len(table[ds]) >= 2 /\ DOMAIN OverridesOf(ds) # {}

\* the requests that end in a refresh of the edit tables
RefreshOps ==
  {"detect", "clear", "add", "remove", "delete", "move",
   "match_set", "match_clear", "toggle"}

ExportColumns(rows, ds) ==
  LET of_ds == SelectSeq(rows, LAMBDA row : row.Dataset = ds)
  IN [k \in DOMAIN of_ds |-> <<of_ds[k].Peak_Number, of_ds[k].Match_ID>>]

\* C18: when an export has just been performed, for each channel it wrote the
\* Peak Number and Match ID columns are those derived from the store as it is
\* now (the ordinals of the current property list and the display ids
\* resolved from the current peaks and overrides).
C18_ExportMatchesStore ==
  last_op = "export" =>
    LET now == Window(peak_properties, manual_match_overrides)
    IN \A ds \in {analysis.exported[k].Dataset : k \in DOMAIN analysis.exported} :
         ExportColumns(analysis.exported, ds)
           = ExportColumns(_build_peak_export_rows(ds, now.metrics[ds], now.match_map[ds]), ds)

\* C18 happens: an export has just written rows for a reading whose peaks
\* were all removed after the analysis window was opened
C18_ExportedAfterEdit ==
  /\ last_op = "export"
  /\ analysis.exported # << >>
  /\ PeaksOf("Rhod") = << >>
  /\ PeaksOf("FRET") = << >>

\* C19: detecting on the normalized calcium trace 1,1,1,1,1,1,2,3,5,3,2,1,1,1
\* with height 1.5, prominence 0.5, distance 2 and width 1 stores exactly one
\* calcium peak, at index 8, with left_base < 8 < right_base, and the
\* amplitude extracted for it is 4.
C19_ScenarioPeak ==
  [][\A fields \in DetectionInputs :
       (last_op' = "detect" /\ fields["Rhod"] = BaseFields /\ detect_peaks(fields)) =>
         LET stored == Get(peak_properties'["Rhod"], reading_var, << >>)
             metrics == _collect_peak_metrics(time_data, Series("Rhod", reading_var), stored)
         IN /\ Get(peaks'["Rhod"], reading_var, << >>) = <<8>>
            /\ Len(stored) = 1
            /\ stored[1].peak_idx = 8
            /\ stored[1].left_base < 8
            /\ 8 < stored[1].right_base
            /\ Len(metrics) = 1
            /\ metrics[1].amplitude = Twice(4 * Unit)]_vars

\* C19 happens: the scenario's detection has just stored its calcium peak
\* and the analysis window opened on it shows the peak's metrics
C19_ScenarioDetected ==
  /\ last_op = "detect"
  /\ Series("Rhod", reading_var) = <<2, 2, 2, 2, 2, 2, 4, 6, 10, 6, 4, 2, 2, 2>>
  /\ PeaksOf("Rhod") = <<8>>
  /\ PeaksOf("FRET") = <<4, 12>>
  /\ analysis.open
  /\ Len(analysis.metrics["Rhod"]) = 1
  /\ analysis.metrics["Rhod"][1].peak_idx = 8

\* the peak value of a metric record exceeds its baseline
Exceeds(m) == ~IsNaN(m.peak_value) /\ ~IsNaN(m.baseline) /\ m.peak_value > m.baseline

\* a number that is not negative (NaN is not such a number)
NonNegative(v) == ~IsNaN(v) /\ v >= 0

\* C20: every metric record _collect_peak_metrics produces has amplitude,
\* auc, rise_time and decay_time >= 0, and has rise_time = decay_time = 0
\* whenever its peak value does not exceed its baseline.
C20_MetricsFloored ==
  measuring.measured =>
    \A k \in DOMAIN measuring.metrics :
       LET m == measuring.metrics[k]
       IN /\ NonNegative(m.amplitude)
          /\ NonNegative(m.auc)
          /\ NonNegative(m.rise_time)
          /\ NonNegative(m.decay_time)
          /\ ~Exceeds(m) => m.rise_time = 0 /\ m.decay_time = 0

\* C20 happens: the metrics of a peak that does not exceed its baseline
\* have been collected, on a time axis that advances around the peak
C20_FlatPeakMeasured ==
  /\ measuring.measured
  /\ Len(measuring.metrics) = 1
  /\ ~Exceeds(measuring.metrics[1])
  /\ measuring.metrics[1].left_idx < measuring.metrics[1].peak_idx
  /\ measuring.metrics[1].peak_idx < measuring.metrics[1].right_idx
  /\ StrictlyAscending(measuring.time_series)

\* the (left_base, right_base) pairs of a property list
BoundaryPairs(props) ==
  [k \in DOMAIN props |-> <<props[k].left_base, props[k].right_base>>]

\* the property list a full-channel recomputation stores for the channel's
\* peaks when `stored` is the list held before
Recomputed(ds, stored) ==
  _rebuild_peak_properties(Series(ds, reading_var), PeaksOf(ds), stored)

HalfwayUp(prev_peak, peak_idx) == (peak_idx - prev_peak + 1) \div 2

\* C22: a peak that has a previous peak gets a left boundary between
\* prev_peak + 1 and prev_peak + ceil((peak_idx - prev_peak) / 2), and a peak
\* that has a next peak gets a right boundary of at most next_peak - 1,
\* whatever the candidates and the spacing of the peaks.
C22_NeighbourClamp ==
  resolving.resolved =>
    \A k \in DOMAIN resolving.peaks :
       LET p == resolving.peaks
           b == resolving.final_bounds[k]
       IN /\ k > 1 => /\ p[k - 1] + 1 <= b[1]
                      /\ b[1] <= p[k - 1] + HalfwayUp(p[k - 1], p[k])
          /\ k < Len(p) => b[2] <= p[k + 1] - 1

\* C22, amended: the same bounds, for a previous peak and a next peak that
\* are not directly next to the peak (at least two samples away).
C22_NeighbourClampApart ==
  resolving.resolved =>
    \A k \in DOMAIN resolving.peaks :
       LET p == resolving.peaks
           b == resolving.final_bounds[k]
       IN /\ (k > 1 /\ p[k] - p[k - 1] >= 2) =>
               /\ p[k - 1] + 1 <= b[1]
               /\ b[1] <= p[k - 1] + HalfwayUp(p[k - 1], p[k])
          /\ (k < Len(p) /\ p[k + 1] - p[k] >= 2) => b[2] <= p[k + 1] - 1

\* C22 happens: the boundaries of three peaks, two of them adjacent, have
\* been resolved
C22_AdjacentResolved ==
  /\ resolving.resolved
  /\ Len(resolving.peaks) = 3
  /\ resolving.peaks[2] = resolving.peaks[1] + 1
  /\ resolving.peaks[3] > resolving.peaks[2] + 1

\* C23: the right boundary of the last peak of a channel is at most
\* length - 1 - tail_margin, with tail_margin = ceil(0.02 * length), wherever
\* the peak lies.
C23_TailClamp ==
  resolving.resolved =>
    LET last == Len(resolving.peaks)
    IN resolving.final_bounds[last][2]
         <= resolving.length - 1 - ((2 * resolving.length + 99) \div 100)

\* C23 happens: the right candidate of a last peak lay in the tail of the
\* trace and has been pulled back to the edge of the tail
C23_TailClamped ==
  /\ resolving.resolved
  /\ LET last == Len(resolving.peaks)
     IN /\ resolving.peaks[last] < tail_guard(resolving.length)
        /\ resolving.candidates[last][2] > tail_guard(resolving.length)
        /\ resolving.final_bounds[last][2] = tail_guard(resolving.length)

\* C30: after a full resolution the event windows of consecutive peaks do
\* not overlap: the right boundary of a peak is at most the left boundary of
\* the next peak, whatever the candidates.
C30_WindowsApart ==
  resolving.resolved =>
    \A k \in DOMAIN resolving.peaks :
       k < Len(resolving.peaks) =>
         resolving.final_bounds[k][2] <= resolving.final_bounds[k + 1][1]

\* C30 happens: two peaks four or more samples apart have been resolved and
\* their windows do not overlap
C30_DistantResolved ==
  /\ resolving.resolved
  /\ Len(resolving.peaks) = 2
  /\ resolving.peaks[2] - resolving.peaks[1] >= 4
  /\ resolving.final_bounds[1][2] <= resolving.final_bounds[2][1]

\* C24: the property record a manual add creates is the single-peak
\* variant's: it has a baseline, the mean of the samples at its left_base
\* and right_base, and its prominence is max(0, peak_value - baseline), so
\* never negative (baseline and prominence are stored doubled).
C24_AddedAsSinglePeak ==
  [][last_op' = "add" =>
       \A ds \in Datasets :
         \A k \in DOMAIN Get(peak_properties'[ds], reading_var, << >>) :
           LET p == peak_properties'[ds][reading_var][k]
               x == Series(ds, reading_var)
           IN p.peak_idx \notin SeqSet(PeaksOf(ds)) =>
                /\ p.has_baseline
                /\ p.baseline = At(x, p.left_base) + At(x, p.right_base)
                /\ p.prominence = Max2(0, 2 * At(x, p.peak_idx) - p.baseline)
                /\ p.prominence >= 0]_vars

\* C24 happens: the only peak of the reading has just been added on the
\* sensor channel at the last sample
C24_AddedAtLastSample ==
  /\ last_op = "add"
  /\ PeaksOf("Rhod") = << >>
  /\ PeaksOf("FRET") = <<13>>

\* the mean of the first six samples of a raw column is zero
ZeroBaselineMean(column) ==
  WindowSum(column, Min2(BaselineWindow, Len(column))) = 0

\* C25: a raw column whose baseline mean is zero, or, on the sensor channel,
\* one with a zero sample (whose inverse is undefined), is not stored as a
\* normalized trace when it is loaded.
C25_DegenerateRejected ==
  (/\ normalizing.loaded
   /\ normalizing.numeric
   /\ \/ ZeroBaselineMean(normalizing.column)
      \/ /\ normalizing.channel = "FRET"
         /\ \E i \in DOMAIN normalizing.column : normalizing.column[i] = 0)
    => ~normalizing.stored

\* C25 happens: a calcium column whose first six samples are all zero and
\* whose last sample is not has been loaded
C25_ZeroBaselineLoaded ==
  /\ normalizing.loaded
  /\ normalizing.numeric
  /\ normalizing.channel = "Rhod"
  /\ ZeroBaselineMean(normalizing.column)
  /\ normalizing.column[LoadLen] # 0

\* C26: in every reachable state every key of the stored override map of a
\* channel and reading is an index of that channel's current peak array for
\* the reading.
C26_NoStaleOverride ==
  \A ds \in Datasets :
     \A rk \in DOMAIN manual_match_overrides[ds] :
        DOMAIN manual_match_overrides[ds][rk] \subseteq SeqSet(Get(peaks[ds], rk, << >>))

\* C26 happens: a peak has just been removed or moved while a channel holds
\* a manual override
C26_EditedBesideOverride ==
  /\ last_op \in {"delete", "remove", "move"}
  /\ \E ds \in Datasets : DOMAIN OverridesOf(ds) # {}

\* C27: a reading key is in a channel's peak dictionary only with a
\* non-empty peak array.
C27_KeyMeansPeaks ==
  \A ds \in Datasets :
     \A rk \in DOMAIN peaks[ds] : Len(peaks[ds][rk]) > 0

\* C27 happens: deleting the last calcium peak has removed the reading from
\* the calcium dictionary while the sensor channel keeps its peaks
C27_LastPeakDeleted ==
  /\ last_op = "delete"
  /\ reading_var \notin DOMAIN peaks["Rhod"]
  /\ reading_var \in DOMAIN peaks["FRET"]
  /\ Len(peaks["FRET"][reading_var]) > 0

\* the display ids _resolve_match_map gives the peaks of a channel in the
\* current state (0 for blank)
Resolved(ds) ==
  LET metrics == [d \in Datasets |-> MetricIndices(PropsOf(d))]
      pairs == _match_peak_pairs(metrics["Rhod"], metrics["FRET"])
  IN _resolve_match_map(manual_match_overrides, ds, reading_var,
                        metrics[ds], AutoMap(ds, pairs))

\* C28: in every reachable state the resolved display ids of a channel give
\* no match id other than blank to two different peaks.
C28_DisplayIdsDistinct ==
  \A ds \in Datasets :
     \A a, b \in DOMAIN Resolved(ds) :
        (a # b /\ Resolved(ds)[a] # 0) => Resolved(ds)[a] # Resolved(ds)[b]

\* C28 happens: a peak has just been added, deleted or moved on the calcium
\* channel while the sensor channel holds two peaks, one with an accepted
\* override, and the two are displayed with different ids
C28_EditedAfterOverride ==
  /\ last_op \in {"add", "remove", "delete", "move"}
  /\ Len(PeaksOf("FRET")) = 2
  /\ DOMAIN OverridesOf("FRET") # {}
  /\ PeaksOf("Rhod") # <<8>>
  /\ \A x, y \in DOMAIN Resolved("FRET") : x # y => Resolved("FRET")[x] # Resolved("FRET")[y]

\* the one-to-one matchings of calcium peaks with strictly later sensor peaks
LaterMatchings(rhod_list, fret_list) ==
  {M \in SUBSET {<<r, f>> \in SeqSet(rhod_list) \X SeqSet(fret_list) :
                   PeakTime(f) > PeakTime(r)} :
     \A a, b \in M : a # b => a[1] # b[1] /\ a[2] # b[2]}

\* C29: the number of records _match_peak_pairs returns is the largest size
\* of a one-to-one matching of calcium peaks with strictly later sensor
\* peaks.
C29_GreedyIsMaximum ==
  pairing.matched =>
    /\ \A M \in LaterMatchings(pairing.rhod_metrics, pairing.fret_metrics) :
          Cardinality(M) <= Len(pairing.pairs)
    /\ \E M \in LaterMatchings(pairing.rhod_metrics, pairing.fret_metrics) :
          Cardinality(M) = Len(pairing.pairs)

\* C29 happens: two calcium peaks and two sensor peaks interleave in time,
\* so that a matching of size two exists but not every choice for the first
\* calcium peak leads to it
C29_Interleaved ==
  /\ pairing.matched
  /\ Len(pairing.rhod_metrics) = 2
  /\ Len(pairing.fret_metrics) = 2
  /\ Len(pairing.pairs) = 2
  /\ \E f \in SeqSet(pairing.fret_metrics) :
        \E r \in SeqSet(pairing.rhod_metrics) : PeakTime(f) <= PeakTime(r)

====
